---- MODULE Spec2Model ----
(***************************************************************************)
(* A model of core.py, the board engine of the Tetris game: the Grid       *)
(* class (drop, move, rotate, convert_active_block, is_valid, is_occupied, *)
(* clear_full_rows, place_block) and the data it works on.                 *)
(*                                                                         *)
(* A Block is a record [posns, color] whose posns is a sequence of <<x, y>> *)
(* pairs (a Python list of tuples: order and repetitions are kept).  An    *)
(* ActiveBlock is a record [x, y, block].  A Grid is a record [blocks,     *)
(* current_block], where current_block is an ActiveBlock or None.          *)
(*                                                                         *)
(* Every method is an operator from a Grid to an outcome [kind, val]: the  *)
(* value it returns, or the exception it raises.  The state machine is a   *)
(* caller that holds one Grid, calls one method at a time on it, and keeps *)
(* the Grid a method returns.                                              *)
(***************************************************************************)
EXTENDS Integers, Sequences, FiniteSets, TLC

HEIGHT == 40
WIDTH == 15

(* ------------------------------ bounds --------------------------------- *)

\* The locked collection of an initial Grid has at most MaxInitBlocks blocks.
MaxInitBlocks == 2
\* place_block is called only on Grids with fewer than MaxBlocks locked blocks.
MaxBlocks == 2
\* A block left to fall starts with its anchor at row MaxFallRow or under it.
MaxFallRow == 3
\* The anchor of the falling block stays within MaxShift columns of a column
\* of InitCols, and at most MaxShift rows below a row of InitRows.
MaxShift == 1

\* At most this many calls are made on the Grids followed by reference.
MaxCalls == 3

(* --------------------------- Python values ----------------------------- *)

None == [none |-> TRUE]

Block(posns, color) == [posns |-> posns, color |-> color]

ActiveBlock(x, y, block) == [x |-> x, y |-> y, block |-> block]

Grid(blocks, current_block) == [blocks |-> blocks, current_block |-> current_block]

\* The outcome of a call: a returned value, or a raised exception.
Return(kind, val) == [kind |-> kind, val |-> val]

Raise(exc) == [kind |-> exc, val |-> <<>>]

\* `p in l` for a Python list l of tuples.
InList(p, l) == \E i \in DOMAIN l : l[i] = p

\* `(px, py) == b` for a Block b, a namedtuple (posns, color): tuples are
\* equal when their items are, and here that asks an int to equal a list
\* (px == b.posns) and an int to equal a str (py == b.color), which no
\* values do.
IntEqList(n, l) == FALSE

IntEqStr(n, s) == FALSE

TupleEqBlock(p, b) == IntEqList(p[1], b.posns) /\ IntEqStr(p[2], b.color)

\* `(px, py) in self.blocks`
InBlocks(p, blocks) == \E i \in DOMAIN blocks : TupleEqBlock(p, blocks[i])

(* ------------------------------- Grid ---------------------------------- *)

\* Mutant: drop with no falling block returns the Grid as it is.
drop_guarded(self) ==
    IF self.current_block = None
    THEN Return("Grid", self)
    ELSE Return("Grid",
                Grid(self.blocks,
                     ActiveBlock(self.current_block.x, self.current_block.y - 1,
                                 self.current_block.block)))

\* Mutant: drop keeps the anchor at or above row 0.
drop_clamped(self) ==
    IF self.current_block = None
    THEN Raise("AttributeError")
    ELSE Return("Grid",
                Grid(self.blocks,
                     ActiveBlock(self.current_block.x,
                                 IF self.current_block.y - 1 < 0
                                 THEN self.current_block.y
                                 ELSE self.current_block.y - 1,
                                 self.current_block.block)))

drop(self) ==
    IF self.current_block = None
    THEN Raise("AttributeError")
    ELSE Return("Grid",
                Grid(self.blocks,
                     ActiveBlock(self.current_block.x, self.current_block.y - 1,
                                 self.current_block.block)))

\* Mutant: move keeps the anchor between the walls.
move_walled(self, dir) ==
    IF dir = "left"
    THEN IF self.current_block = None
         THEN Raise("AttributeError")
         ELSE Return("Grid",
                     Grid(self.blocks,
                          ActiveBlock(IF self.current_block.x - 1 < 0
                                      THEN self.current_block.x
                                      ELSE self.current_block.x - 1,
                                      self.current_block.y,
                                      self.current_block.block)))
    ELSE IF dir = "right"
    THEN IF self.current_block = None
         THEN Raise("AttributeError")
         ELSE Return("Grid",
                     Grid(self.blocks,
                          ActiveBlock(IF self.current_block.x + 1 >= WIDTH
                                      THEN self.current_block.x
                                      ELSE self.current_block.x + 1,
                                      self.current_block.y,
                                      self.current_block.block)))
    ELSE Return("None", None)

\* Mutant: a direction that is neither 'left' nor 'right' moves nothing and
\* returns the Grid.
move_noop(self, dir) ==
    IF dir = "left"
    THEN IF self.current_block = None
         THEN Raise("AttributeError")
         ELSE Return("Grid",
                     Grid(self.blocks,
                          ActiveBlock(self.current_block.x - 1, self.current_block.y,
                                      self.current_block.block)))
    ELSE IF dir = "right"
    THEN IF self.current_block = None
         THEN Raise("AttributeError")
         ELSE Return("Grid",
                     Grid(self.blocks,
                          ActiveBlock(self.current_block.x + 1, self.current_block.y,
                                      self.current_block.block)))
    ELSE Return("Grid", self)

move(self, dir) ==
    IF dir = "left"
    THEN IF self.current_block = None
         THEN Raise("AttributeError")
         ELSE Return("Grid",
                     Grid(self.blocks,
                          ActiveBlock(self.current_block.x - 1, self.current_block.y,
                                      self.current_block.block)))
    ELSE IF dir = "right"
    THEN IF self.current_block = None
         THEN Raise("AttributeError")
         ELSE Return("Grid",
                     Grid(self.blocks,
                          ActiveBlock(self.current_block.x + 1, self.current_block.y,
                                      self.current_block.block)))
    ELSE Return("None", None)

\* Mutant: the rotation turns the other way, (x, y) to (-y, x).
rotate_posns_ccw(posns) == [i \in DOMAIN posns |-> <<-posns[i][2], posns[i][1]>>]

\* Mutant: a slip in the comprehension, (y, -y) for (y, -x).
rotate_posns_slip(posns) == [i \in DOMAIN posns |-> <<posns[i][2], -posns[i][2]>>]

\* [(y, -x) for x, y in posns]
rotate_posns(posns) == [i \in DOMAIN posns |-> <<posns[i][2], -posns[i][1]>>]

\* Unpacking None (x, y, block = self.current_block) is a TypeError.
rotate(self) ==
    IF self.current_block = None
    THEN Raise("TypeError")
    ELSE Return("Grid",
                Grid(self.blocks,
                     ActiveBlock(self.current_block.x, self.current_block.y,
                                 Block(rotate_posns(self.current_block.block.posns),
                                       self.current_block.block.color))))

convert_active_block(self) ==
    IF self.current_block = None
    THEN Raise("AttributeError")
    ELSE Return("Block",
                Block([i \in DOMAIN self.current_block.block.posns |->
                          <<self.current_block.block.posns[i][1] + self.current_block.x,
                            self.current_block.block.posns[i][2] + self.current_block.y>>],
                      self.current_block.block.color))

\* Mutant: the first loop has no floor (no py < 0).
ActiveCellsOk_no_floor(self, converted_block) ==
    \A i \in DOMAIN converted_block.posns :
        LET px == converted_block.posns[i][1]
            py == converted_block.posns[i][2]
        IN  ~(px < 0 \/ px >= WIDTH \/ InBlocks(<<px, py>>, self.blocks))

\* The first loop of is_valid: no cell of the converted block is refused.
ActiveCellsOk(self, converted_block) ==
    \A i \in DOMAIN converted_block.posns :
        LET px == converted_block.posns[i][1]
            py == converted_block.posns[i][2]
        IN  ~(px < 0 \/ px >= WIDTH \/ py < 0 \/ InBlocks(<<px, py>>, self.blocks))

\* Mutant: the second loop leaves the overlap with the converted block to
\* the first loop.
PlacedCellsOk_bounds_only(self, converted_block) ==
    \A b \in DOMAIN self.blocks :
        \A i \in DOMAIN self.blocks[b].posns :
            LET x == self.blocks[b].posns[i][1]
                y == self.blocks[b].posns[i][2]
            IN  ~(x < 0 \/ x >= WIDTH \/ y < 0 \/ y > HEIGHT)

\* Mutant: the top bound refuses row HEIGHT too (y >= HEIGHT).
PlacedCellsOk_top_strict(self, converted_block) ==
    \A b \in DOMAIN self.blocks :
        \A i \in DOMAIN self.blocks[b].posns :
            LET x == self.blocks[b].posns[i][1]
                y == self.blocks[b].posns[i][2]
            IN  ~(x < 0 \/ x >= WIDTH \/ y < 0 \/ y >= HEIGHT
                  \/ InList(<<x, y>>, converted_block.posns))

\* The second loop of is_valid: no cell of a placed block is refused.
PlacedCellsOk(self, converted_block) ==
    \A b \in DOMAIN self.blocks :
        \A i \in DOMAIN self.blocks[b].posns :
            LET x == self.blocks[b].posns[i][1]
                y == self.blocks[b].posns[i][2]
            IN  ~(x < 0 \/ x >= WIDTH \/ y < 0 \/ y > HEIGHT
                  \/ InList(<<x, y>>, converted_block.posns))

is_valid(self) ==
    LET converted == convert_active_block(self)
    IN  IF converted.kind # "Block"
        THEN converted
        ELSE Return("bool", ActiveCellsOk(self, converted.val)
                            /\ PlacedCellsOk(self, converted.val))

\* Mutant: the cells of the falling block count as occupied too.
is_occupied_or_active(self, p) ==
    \/ \E b \in DOMAIN self.blocks : InList(p, self.blocks[b].posns)
    \/ /\ self.current_block # None
       /\ InList(<<p[1] - self.current_block.x, p[2] - self.current_block.y>>,
                 self.current_block.block.posns)

is_occupied(self, p) ==
    \E b \in DOMAIN self.blocks : InList(p, self.blocks[b].posns)

\* [f(e) for e in l if keep(e)] for the two filters of _clear_full_row.
RECURSIVE posns_not_in_row(_, _)
posns_not_in_row(posns, r) ==
    IF posns = <<>>
    THEN <<>>
    ELSE IF Head(posns)[2] # r
         THEN <<Head(posns)>> \o posns_not_in_row(Tail(posns), r)
         ELSE posns_not_in_row(Tail(posns), r)

RECURSIVE blocks_cleared(_, _)
blocks_cleared(blocks, r) ==
    IF blocks = <<>>
    THEN <<>>
    ELSE IF \E i \in DOMAIN Head(blocks).posns : Head(blocks).posns[i][2] # r
         THEN <<Block(posns_not_in_row(Head(blocks).posns, r), Head(blocks).color)>>
              \o blocks_cleared(Tail(blocks), r)
         ELSE blocks_cleared(Tail(blocks), r)

\* Mutant: every cell goes down one row, the cells under row r too.
_drop_above_all(self, r) ==
    Grid([b \in DOMAIN self.blocks |->
             Block([i \in DOMAIN self.blocks[b].posns |->
                       <<self.blocks[b].posns[i][1], self.blocks[b].posns[i][2] - 1>>],
                   self.blocks[b].color)],
         self.current_block)

_drop_above(self, r) ==
    Grid([b \in DOMAIN self.blocks |->
             Block([i \in DOMAIN self.blocks[b].posns |->
                       LET x == self.blocks[b].posns[i][1]
                           y == self.blocks[b].posns[i][2]
                       IN  <<x, IF y < r THEN y ELSE y - 1>>],
                   self.blocks[b].color)],
         self.current_block)

row_is_full(self, r) == \A c \in 0..(WIDTH - 1) : is_occupied(self, <<c, r>>)

\* Mutant: after clearing row r the scan moves on to row r + 1.
RECURSIVE _clear_full_row_advancing(_, _)
_clear_full_row_advancing(self, r) ==
    IF r = HEIGHT
    THEN self
    ELSE IF row_is_full(self, r)
         THEN LET cleared == Grid(blocks_cleared(self.blocks, r), self.current_block)
                  dropped == _drop_above(cleared, r)
              IN  _clear_full_row_advancing(dropped, r + 1)
         ELSE _clear_full_row_advancing(self, r + 1)

RECURSIVE _clear_full_row(_, _)
_clear_full_row(self, r) ==
    IF r = HEIGHT
    THEN self
    ELSE IF row_is_full(self, r)
         THEN LET cleared == Grid(blocks_cleared(self.blocks, r), self.current_block)
                  dropped == _drop_above(cleared, r)
              IN  _clear_full_row(dropped, r)
         ELSE _clear_full_row(self, r + 1)

\* Mutant: after clearing row r the call goes on with the Grid it was made
\* on (self._clear_full_row(r)), not with the cleared and dropped one.
_clear_full_row_frame_undropped(self, r) ==
    IF r = HEIGHT
    THEN [returns |-> TRUE, self |-> self, r |-> r]
    ELSE IF row_is_full(self, r)
         THEN [returns |-> FALSE, self |-> self, r |-> r]
         ELSE [returns |-> FALSE, self |-> self, r |-> r + 1]

\* One activation of _clear_full_row(self, r): it returns self, or it calls
\* _clear_full_row again, on the Grid and with the row given here.
_clear_full_row_frame(self, r) ==
    IF r = HEIGHT
    THEN [returns |-> TRUE, self |-> self, r |-> r]
    ELSE IF row_is_full(self, r)
         THEN LET cleared == Grid(blocks_cleared(self.blocks, r), self.current_block)
                  dropped == _drop_above(cleared, r)
              IN  [returns |-> FALSE, self |-> dropped, r |-> r]
         ELSE [returns |-> FALSE, self |-> self, r |-> r + 1]

clear_full_rows(self) == Return("Grid", _clear_full_row(self, 0))

\* Mutant: the placed block keeps the offsets, not moved to the anchor.
place_block_unanchored(self) ==
    IF self.current_block = None
    THEN Raise("AttributeError")
    ELSE Return("Grid",
                Grid(self.blocks \o
                     <<Block(self.current_block.block.posns,
                             self.current_block.block.color)>>,
                     None))

place_block(self) ==
    IF self.current_block = None
    THEN Raise("AttributeError")
    ELSE Return("Grid",
                Grid(self.blocks \o
                     <<Block([i \in DOMAIN self.current_block.block.posns |->
                                 <<self.current_block.x + self.current_block.block.posns[i][1],
                                   self.current_block.y + self.current_block.block.posns[i][2]>>],
                             self.current_block.block.color)>>,
                     None))

\* Grid.__eq__: the current blocks are equal and the lists of blocks are;
\* False when `other` is None, which has no attribute current_block.
grid_eq(self, other) ==
    IF other = None
    THEN FALSE
    ELSE other.current_block = self.current_block /\ other.blocks = self.blocks

(* ------------------------------ new_block ------------------------------ *)

\* The list new_block chooses from.
new_block_choices ==
    << Block(<< <<0, 2>>, <<0, 1>>, <<0, 0>>, <<1, 0>> >>, "blue"),
       Block(<< <<1, 2>>, <<1, 1>>, <<1, 0>>, <<0, 0>> >>, "red"),
       Block(<< <<0, 3>>, <<0, 2>>, <<0, 1>>, <<0, 0>> >>, "orange"),
       Block(<< <<-1, 1>>, <<0, 1>>, <<1, 1>>, <<0, 0>> >>, "#E50D72"),
       Block(<< <<-1, 0>>, <<0, 0>>, <<1, 0>>, <<1, 1>> >>, "green"),
       Block(<< <<-1, 1>>, <<0, 1>>, <<0, 0>>, <<1, 0>> >>, "purple"),
       Block(<< <<0, 1>>, <<1, 1>>, <<0, 0>>, <<1, 0>> >>, "yellow"),
       Block(<< <<1, 2>>, <<0, 2>>, <<0, 1>>, <<0, 0>>, <<1, 0>> >>, "#634011") >>

(* ---------------------------- initial Grids ---------------------------- *)

\* A placed block that fills row r.
FullRow(r) == Block([i \in 1..WIDTH |-> <<i - 1, r>>], "red")

\* A placed block that fills row r but for column 0.
GapRow(r) == Block([i \in 1..(WIDTH - 1) |-> <<i, r>>], "green")

\* A placed block over two rows of column 0.
Pair == Block(<< <<0, 0>>, <<0, 1>> >>, "blue")

\* A placed block that shares the cell (0, 1) with Pair.
Twin == Block(<< <<0, 1>>, <<0, 2>> >>, "red")

\* Placed blocks for the bounds and overlap checks: a nearly full row, two
\* blocks in the way of the falling block and of each other, a cell out of
\* each bound, a cell listed twice.
CellPool ==
    << GapRow(0), Pair, Twin,
       Block(<< <<-1, 0>> >>, "purple"),
       Block(<< <<WIDTH, 0>> >>, "purple"),
       Block(<< <<0, -1>> >>, "purple"),
       Block(<< <<0, HEIGHT + 1>> >>, "purple"),
       Block(<< <<3, 2>>, <<3, 2>> >>, "yellow") >>

\* Placed blocks for clearing rows: full and nearly full rows at the floor,
\* at the last row scanned and at the first row not scanned, a block over
\* two rows, an empty block.
RowPool ==
    << FullRow(0), FullRow(1), FullRow(HEIGHT - 1), FullRow(HEIGHT), GapRow(0),
       Pair, Block(<< >>, "orange") >>

\* The lists of at most MaxInitBlocks blocks of `pool`, in the order of `pool`.
BlockLists(pool) ==
    { [i \in DOMAIN f |-> pool[f[i]]] :
        f \in { g \in UNION { [1..n -> DOMAIN pool] : n \in 0..MaxInitBlocks } :
                  \A i, j \in DOMAIN g : i < j => g[i] < g[j] } }

InitCols == {0, WIDTH - 1}

InitRows == {0, HEIGHT + 1}

\* The falling block of an initial Grid is the I of new_block.
InitShape == new_block_choices[3]

\* The anchors the caller lets the falling block reach.
AnchorInBounds(g) ==
    g.current_block # None =>
        /\ \E x0 \in InitCols : g.current_block.x \in (x0 - MaxShift)..(x0 + MaxShift)
        /\ \E y0 \in InitRows : g.current_block.y \in (y0 - MaxShift)..y0

(* ---------------------------- state machine ---------------------------- *)

VARIABLES
    grid,    \* the Grid the caller holds
    pre,     \* the Grid the last call was made on
    op,      \* the method last called ("new" after construction)
    arg,     \* its argument: a direction, a position, a Grid or None, or <<>>
    ret,     \* its outcome
    streak,  \* how many calls the streak just made counts: rotate after rotate,
             \* clear_full_rows after clear_full_rows, move after the opposite move
    base,    \* the Grid the first call of that streak was made on
    heap,    \* the lists allocated, by reference: heap[ref] is the items of the list
    snaps    \* the Grids obtained so far: the reference held and the value it had

vars == <<grid, pre, op, arg, ret, streak, base, heap, snaps>>

\* The lists are followed by reference in HeapSpec only.
NoHeap == heap = <<>> /\ snaps = <<>>

\* The state after construction of the Grid `g`.
Constructed(g) ==
    /\ grid = g
    /\ pre = grid
    /\ op = "new"
    /\ arg = <<>>
    /\ ret = Return("Grid", grid)
    /\ streak = 0
    /\ base = grid
    /\ NoHeap

\* Grids of blocks in and out of bounds, with a falling block at either wall
\* or with none.
Init ==
    \E bs \in BlockLists(CellPool) :
        \E cb \in {None} \cup { ActiveBlock(x, 0, InitShape) : x \in InitCols } :
            Constructed(Grid(bs, cb))

\* Grids of full and nearly full rows, with a falling block over column 0,
\* at the floor or at the top, or with none.
RowsInit ==
    \E bs \in BlockLists(RowPool) :
        \E cb \in {None} \cup { ActiveBlock(0, y, InitShape) : y \in InitRows } :
            Constructed(Grid(bs, cb))

\* One call: the caller keeps a returned Grid, and keeps its own otherwise.
Call(name, a, outcome) ==
    /\ pre' = grid
    /\ op' = name
    /\ arg' = a
    /\ ret' = outcome
    /\ grid' = IF outcome.kind = "Grid" THEN outcome.val ELSE grid
    /\ UNCHANGED <<heap, snaps>>

NoStreak == streak' = 0 /\ base' = grid

\* The n-th call in a row of the method `name`, counted up to `most`.
Streak(name, most) ==
    IF op = name /\ streak >= 1 /\ streak < most
    THEN streak' = streak + 1 /\ base' = base
    ELSE streak' = 1 /\ base' = grid

Drop ==
    /\ drop(grid).kind = "Grid" => AnchorInBounds(drop(grid).val)
    /\ Call("drop", <<>>, drop(grid))
    /\ NoStreak

\* The move that undoes a move to `dir`.
Opposite(dir) == IF dir = "left" THEN "right" ELSE "left"

Move ==
    \E dir \in {"left", "right", "up"} :
        /\ move(grid, dir).kind = "Grid" => AnchorInBounds(move(grid, dir).val)
        /\ Call("move", dir, move(grid, dir))
        /\ IF /\ op = "move" /\ streak = 1 /\ ret.kind = "Grid"
              /\ dir \in {"left", "right"} /\ arg = Opposite(dir)
           THEN streak' = 2 /\ base' = base
           ELSE IF dir \in {"left", "right"}
                THEN streak' = 1 /\ base' = grid
                ELSE NoStreak

Rotate ==
    /\ Call("rotate", <<>>, rotate(grid))
    /\ Streak("rotate", 4)

ConvertActiveBlock ==
    /\ Call("convert_active_block", <<>>, convert_active_block(grid))
    /\ NoStreak

IsValid ==
    /\ Call("is_valid", <<>>, is_valid(grid))
    /\ NoStreak

\* The positions is_occupied is asked about.
Probes == { <<0, 0>>, <<0, 1>>, <<WIDTH - 1, HEIGHT>> }

IsOccupied ==
    \E p \in Probes :
        /\ Call("is_occupied", p, Return("bool", is_occupied(grid, p)))
        /\ NoStreak

\* l[::-1]
Reversed(l) == [i \in DOMAIN l |-> l[Len(l) + 1 - i]]

\* The Grid `g` with the cells of every block listed in the reverse order.
Reordered(g) ==
    Grid([b \in DOMAIN g.blocks |-> Block(Reversed(g.blocks[b].posns), g.blocks[b].color)],
         IF g.current_block = None
         THEN None
         ELSE ActiveBlock(g.current_block.x, g.current_block.y,
                          Block(Reversed(g.current_block.block.posns),
                                g.current_block.block.color)))

\* grid == other, for None and for a Grid that lists the same cells.
Eq ==
    \E other \in {None, Reordered(grid)} :
        /\ Call("__eq__", other, Return("bool", grid_eq(grid, other)))
        /\ NoStreak

ClearFullRows ==
    /\ Call("clear_full_rows", <<>>, clear_full_rows(grid))
    /\ Streak("clear_full_rows", 2)

PlaceBlock ==
    /\ Len(grid.blocks) < MaxBlocks
    /\ Call("place_block", <<>>, place_block(grid))
    /\ NoStreak

Next ==
    \/ Drop
    \/ Move
    \/ Rotate
    \/ ConvertActiveBlock
    \/ IsValid
    \/ IsOccupied
    \/ ClearFullRows
    \/ PlaceBlock
    \/ Eq

Spec == Init /\ [][Next]_vars

(* ------------------- clear_full_rows, call by call --------------------- *)

\* How many cells the placed blocks of g list.
CellCount(g) ==
    Cardinality(UNION { { <<b, i>> : i \in DOMAIN g.blocks[b].posns } : b \in DOMAIN g.blocks })

\* clear_full_rows has just called _clear_full_row(0) on a Grid of rows.
\* While the calls go on, grid is the `self` of the innermost call and arg its
\* row, streak counts the rows cleared so far, and base is the Grid
\* clear_full_rows was called on.
ScanInit ==
    \E bs \in BlockLists(RowPool) :
        \E cb \in {None} \cup { ActiveBlock(0, y, InitShape) : y \in InitRows } :
            /\ grid = Grid(bs, cb)
            /\ pre = grid
            /\ base = grid
            /\ op = "_clear_full_row"
            /\ arg = 0
            /\ ret = Return("None", None)
            /\ streak = 0
            /\ NoHeap

\* The innermost call runs: it returns, and so do all the calls around it and
\* clear_full_rows, or it calls _clear_full_row.  No more rows are cleared
\* than one past the number of cells there were.
ScanStep ==
    /\ op = "_clear_full_row"
    /\ streak <= CellCount(base)
    /\ LET frame == _clear_full_row_frame(grid, arg)
       IN  /\ pre' = grid
           /\ grid' = frame.self
           /\ arg' = frame.r
           /\ op' = IF frame.returns THEN "clear_full_rows" ELSE "_clear_full_row"
           /\ ret' = IF frame.returns THEN Return("Grid", frame.self) ELSE ret
           /\ streak' = IF ~frame.returns /\ frame.r = arg THEN streak + 1 ELSE streak
           /\ base' = base
           /\ UNCHANGED <<heap, snaps>>

ScanNext == ScanStep

\* A call that has started runs to its end.
ScanSpec == ScanInit /\ [][ScanNext]_vars /\ WF_vars(ScanNext)

RowsSpec == RowsInit /\ [][Next]_vars

(* ------------------------- a block left to fall ------------------------ *)

\* The lowest row of the cells of the falling block of g.
LowestRow(g) ==
    CHOOSE m \in { g.current_block.y + g.current_block.block.posns[i][2] :
                      i \in DOMAIN g.current_block.block.posns } :
        \A i \in DOMAIN g.current_block.block.posns :
            m <= g.current_block.y + g.current_block.block.posns[i][2]

\* The shapes of new_block, as given and rotated.
FallShapes ==
    UNION { { s, Block(rotate_posns(s.posns), s.color),
              Block(rotate_posns(rotate_posns(s.posns)), s.color),
              Block(rotate_posns(rotate_posns(rotate_posns(s.posns))), s.color) } :
            s \in { new_block_choices[i] : i \in DOMAIN new_block_choices } }

FallCols == {0, 1}

\* A valid Grid of rows with a falling block by the left wall; streak counts
\* the drops and base is the Grid the first drop is called on.
FallInit ==
    \E bs \in BlockLists(RowPool) :
        \E x \in FallCols, y \in 0..MaxFallRow, s \in FallShapes :
            /\ is_valid(Grid(bs, ActiveBlock(x, y, s))).val = TRUE
            /\ Constructed(Grid(bs, ActiveBlock(x, y, s)))

\* The caller drops the falling block as long as the Grid is valid; the
\* guard on `streak` stops a fall that has gone one drop past the number the
\* lowest cell's starting row allows.
FallDrop ==
    /\ is_valid(grid).val = TRUE
    /\ streak <= LowestRow(base) + 1
    /\ Call("drop", <<>>, drop(grid))
    /\ streak' = streak + 1
    /\ base' = base

FallNext == FallDrop

FallSpec == FallInit /\ [][FallNext]_vars /\ WF_vars(FallNext)

(* ------------------------ what the claims speak of --------------------- *)

HasActive(g) == g.current_block # None

\* The cells of the placed blocks of g, as a set.
LockedCells(g) ==
    UNION { { g.blocks[b].posns[i] : i \in DOMAIN g.blocks[b].posns } : b \in DOMAIN g.blocks }

\* The absolute cells of the falling block of g, as a set.
ActiveCells(g) ==
    { <<g.current_block.x + o[1], g.current_block.y + o[2]>> :
        o \in { g.current_block.block.posns[i] : i \in DOMAIN g.current_block.block.posns } }

ActiveOutOfColumns(g) == \E p \in ActiveCells(g) : p[1] < 0 \/ p[1] >= WIDTH

ActiveOverlapsLocked(g) == ActiveCells(g) \cap LockedCells(g) # {}

LockedOutOfBounds(g) ==
    \E p \in LockedCells(g) : p[1] < 0 \/ p[1] >= WIDTH \/ p[2] < 0 \/ p[2] > HEIGHT

ActiveBelowFloor(g) == \E p \in ActiveCells(g) : p[2] < 0

\* The places where g lists an occupied cell: <<b, i>> for the i-th cell of
\* the b-th placed block, <<0, i>> for the i-th cell of the falling block.
Occurrences(g) ==
    UNION { { <<b, i>> : i \in DOMAIN g.blocks[b].posns } : b \in DOMAIN g.blocks }

CellAt(g, q) == g.blocks[q[1]].posns[q[2]]

\* Two cells listed in the placed blocks of g are the same position.
LockedCoincide(g) ==
    \E q1, q2 \in Occurrences(g) : q1 # q2 /\ CellAt(g, q1) = CellAt(g, q2)

\* Two offsets listed in the falling block of g are the same.
ActiveCoincide(g) ==
    \E i, j \in DOMAIN g.current_block.block.posns :
        i # j /\ g.current_block.block.posns[i] = g.current_block.block.posns[j]

\* Two occupied cells of g (placed or falling) coincide.
Coincide(g) == LockedCoincide(g) \/ ActiveCoincide(g) \/ ActiveOverlapsLocked(g)

FullRows(g) ==
    { r \in 0..(HEIGHT - 1) : \A c \in 0..(WIDTH - 1) : <<c, r>> \in LockedCells(g) }

(* ------------------------------- claims -------------------------------- *)

\* C1: the Grid clear_full_rows returns has no row in [0, HEIGHT) in which
\* every column in [0, WIDTH) holds a cell of a placed block, whatever the
\* placed blocks (cells at rows >= HEIGHT among them) and the falling block.
C1_NoFullRowAfterClear ==
    op = "clear_full_rows" => ret.kind = "Grid" /\ FullRows(grid) = {}

\* clear_full_rows has run on a Grid with a falling block and a full row
\* right under row HEIGHT, itself filled in every column.
C1_Witness ==
    /\ op = "clear_full_rows"
    /\ HEIGHT - 1 \in FullRows(pre)
    /\ \A c \in 0..(WIDTH - 1) : <<c, HEIGHT>> \in LockedCells(pre)
    /\ HasActive(pre)
    /\ grid # pre

\* C2: on a Grid with a falling block, is_valid returns False whenever a
\* cell of the falling block is out of the columns [0, WIDTH), or is a cell
\* of a placed block, or a cell of a placed block has its column out of
\* [0, WIDTH) or its row out of [0, HEIGHT].
C2_InvalidRejected ==
    (/\ op = "is_valid"
     /\ HasActive(pre)
     /\ ActiveOutOfColumns(pre) \/ ActiveOverlapsLocked(pre) \/ LockedOutOfBounds(pre))
    => ret.kind = "bool" /\ ret.val = FALSE

\* is_valid has refused a Grid whose only fault is a falling cell on a cell
\* of a placed block.
C2_Witness ==
    /\ op = "is_valid"
    /\ HasActive(pre)
    /\ ActiveOverlapsLocked(pre)
    /\ ~ActiveOutOfColumns(pre)
    /\ ~LockedOutOfBounds(pre)
    /\ ~ActiveBelowFloor(pre)
    /\ ret.kind = "bool" /\ ret.val = FALSE

\* C3: is_valid can be called on a Grid with no falling block: it returns a
\* bool, True iff every cell of the placed blocks is in bounds, and raises
\* nothing.
C3_CallableWithoutActive ==
    (op = "is_valid" /\ ~HasActive(pre))
    => ret.kind = "bool" /\ ret.val = ~LockedOutOfBounds(pre)

\* C4: is_valid returns False for every Grid in which two occupied cells
\* coincide, also when they are two cells of the placed blocks and the
\* falling block overlaps nothing.
C4_CoincidingRejected ==
    (op = "is_valid" /\ HasActive(pre) /\ Coincide(pre))
    => ret.kind = "bool" /\ ret.val = FALSE

\* The four invariants of the data model, on a Grid with a falling block.
FourInvariants(g) ==
    /\ ~ActiveOutOfColumns(g)
    /\ ~ActiveOverlapsLocked(g)
    /\ ~LockedOutOfBounds(g)
    /\ ~Coincide(g)

\* C5, as claimed: is_valid returns True for every Grid with a falling block
\* that satisfies the four invariants, whatever the rows of the falling cells.
C5_ValidAccepted ==
    (op = "is_valid" /\ HasActive(pre) /\ FourInvariants(pre))
    => ret.kind = "bool" /\ ret.val = TRUE

\* C5, amended: is_valid returns True for every Grid with a falling block
\* that satisfies the four invariants and whose falling cells all have a
\* row >= 0; the falling cells have no bound above.
C5_ValidAcceptedAboveFloor ==
    (op = "is_valid" /\ HasActive(pre) /\ FourInvariants(pre) /\ ~ActiveBelowFloor(pre))
    => ret.kind = "bool" /\ ret.val = TRUE

\* is_valid has accepted a Grid with a placed cell at row HEIGHT and a
\* falling cell above row HEIGHT.
C5_Witness ==
    /\ op = "is_valid"
    /\ HasActive(pre)
    /\ ret.kind = "bool" /\ ret.val = TRUE
    /\ \E p \in LockedCells(pre) : p[2] = HEIGHT
    /\ \E p \in ActiveCells(pre) : p[2] > HEIGHT

\* C6: on a Grid with a falling block, place_block returns a Grid with no
\* falling block, whose placed blocks are those of the Grid in the same
\* order and then one more, the block convert_active_block returns; so
\* is_occupied is true on it at every absolute cell of the falling block.
C6_PlaceAppendsConverted ==
    (op = "place_block" /\ HasActive(pre))
    => /\ ret.kind = "Grid"
       /\ grid.current_block = None
       /\ Len(grid.blocks) = Len(pre.blocks) + 1
       /\ SubSeq(grid.blocks, 1, Len(pre.blocks)) = pre.blocks
       /\ grid.blocks[Len(grid.blocks)] = convert_active_block(pre).val
       /\ \A p \in ActiveCells(pre) : is_occupied(grid, p)

\* place_block has placed a falling block anchored away from (0, 0) on a
\* Grid that had a placed block already.
C6_Witness ==
    /\ op = "place_block"
    /\ HasActive(pre)
    /\ pre.blocks # <<>>
    /\ pre.current_block.x # 0
    /\ pre.current_block.y # 0

\* C8: on a Grid with a falling block, rotate returns the Grid in which every
\* offset (dx, dy) of the falling block is replaced by (dy, -dx), in place,
\* with the color, the anchor and the placed blocks unchanged; it checks no
\* bound and no collision.
C8_RotateTransform ==
    (op = "rotate" /\ HasActive(pre))
    => /\ ret.kind = "Grid"
       /\ DOMAIN grid.current_block.block.posns = DOMAIN pre.current_block.block.posns
       /\ \A i \in DOMAIN pre.current_block.block.posns :
             /\ grid.current_block.block.posns[i][1] = pre.current_block.block.posns[i][2]
             /\ grid.current_block.block.posns[i][2] = 0 - pre.current_block.block.posns[i][1]
       /\ grid.current_block.block.color = pre.current_block.block.color
       /\ grid.current_block.x = pre.current_block.x
       /\ grid.current_block.y = pre.current_block.y
       /\ grid.blocks = pre.blocks

\* rotate has laid the upright I on its side, through the right wall: the
\* Grid it was called on is valid and the Grid it returned is not.
C8_Witness ==
    /\ op = "rotate"
    /\ HasActive(pre)
    /\ { pre.current_block.block.posns[i] : i \in 1..4 } = { <<0, 0>>, <<0, 1>>, <<0, 2>>, <<0, 3>> }
    /\ { grid.current_block.block.posns[i] : i \in 1..4 } = { <<0, 0>>, <<1, 0>>, <<2, 0>>, <<3, 0>> }
    /\ is_valid(pre).val = TRUE
    /\ ActiveOutOfColumns(grid)
    /\ is_valid(grid).val = FALSE

\* C9: four calls of rotate in a row give back the Grid the first was called
\* on: the same offsets in the same order, the same anchor and color, the
\* same placed blocks.
C9_RotateFourTimes ==
    (op = "rotate" /\ streak = 4 /\ HasActive(base)) => grid_eq(grid, base)

\* The fourth rotate in a row has returned, the third having returned a Grid
\* that differs from the first and is not valid.
C9_Witness ==
    /\ op = "rotate"
    /\ streak = 4
    /\ HasActive(base)
    /\ pre # base
    /\ is_valid(pre).val = FALSE
    /\ is_valid(base).val = TRUE

\* C10: on a Grid with a falling block, drop returns the Grid whose anchor
\* row is one less, with the anchor column, the shape and the placed blocks
\* unchanged; it neither refuses nor clamps.
C10_DropOneRow ==
    (op = "drop" /\ HasActive(pre))
    => /\ ret.kind = "Grid"
       /\ grid.current_block.y = pre.current_block.y - 1
       /\ grid.current_block.x = pre.current_block.x
       /\ grid.current_block.block = pre.current_block.block
       /\ grid.blocks = pre.blocks

\* drop has taken the falling block of a valid Grid onto cells of a placed
\* block, and returned that Grid, which is not valid.
C10_Witness ==
    /\ op = "drop"
    /\ HasActive(pre)
    /\ is_valid(pre).val = TRUE
    /\ ActiveOverlapsLocked(grid)
    /\ is_valid(grid).val = FALSE

\* C7: clear_full_rows called on the Grid clear_full_rows returned returns an
\* equal Grid (Grid.__eq__: the same falling block, the same placed blocks in
\* the same order).
C7_ClearIdempotent ==
    (op = "clear_full_rows" /\ streak = 2) => grid_eq(grid, pre)

\* clear_full_rows has been called twice in a row, the first call having
\* cleared two rows.
C7_Witness ==
    /\ op = "clear_full_rows"
    /\ streak = 2
    /\ Cardinality(FullRows(base)) >= 2
    /\ pre # base

\* C11: on a Grid with a falling block, move 'left' lowers the anchor column
\* by exactly 1 and move 'right' raises it by exactly 1, with the anchor row,
\* the shape and the placed blocks unchanged; so a move and then the
\* opposite move return a Grid equal to the first, wherever the walls are.
C11_MoveShiftsAndRoundTrips ==
    /\ (op = "move" /\ arg \in {"left", "right"} /\ HasActive(pre))
       => /\ ret.kind = "Grid"
          /\ grid.current_block.x = pre.current_block.x + (IF arg = "left" THEN -1 ELSE 1)
          /\ grid.current_block.y = pre.current_block.y
          /\ grid.current_block.block = pre.current_block.block
          /\ grid.blocks = pre.blocks
    /\ (op = "move" /\ streak = 2) => grid_eq(grid, base)

\* move 'right' has undone a move 'left' that took the falling block of a
\* valid Grid through the left wall.
C11_Witness ==
    /\ op = "move"
    /\ arg = "right"
    /\ streak = 2
    /\ is_valid(base).val = TRUE
    /\ ActiveOutOfColumns(pre)
    /\ pre # base

\* C12: for a direction that is neither 'left' nor 'right', move returns
\* None: no Grid, nothing that compares equal to the Grid it was called on,
\* and the caller's Grid is the one it had.
C12_InvalidDirectionReturnsNone ==
    (op = "move" /\ arg \notin {"left", "right"})
    => /\ ret.kind = "None"
       /\ ret.val = None
       /\ ~grid_eq(pre, ret.val)
       /\ grid = pre

\* move 'up' has been called on a Grid with a falling block.
C12_Witness ==
    /\ op = "move"
    /\ arg = "up"
    /\ HasActive(pre)
    /\ pre.blocks # <<>>

\* C13: on a Grid with no falling block, drop, convert_active_block and
\* rotate each raise an error and return nothing, and the caller's Grid is
\* the one it had.
C13_NoActiveRaises ==
    (op \in {"drop", "convert_active_block", "rotate"} /\ ~HasActive(pre))
    => /\ ret.kind \in {"AttributeError", "TypeError"}
       /\ grid = pre

\* drop has raised on a Grid with placed blocks and no falling block.
C13_Witness ==
    /\ op = "drop"
    /\ ~HasActive(pre)
    /\ pre.blocks # <<>>
    /\ ret.kind = "AttributeError"

\* C15: is_occupied(p) is true iff p is a cell of a placed block; the cells
\* of the falling block never make it true, so drop, move and rotate change
\* the result of is_occupied at no position.
C15_OccupiedIffLocked ==
    /\ op = "is_occupied" => (ret.kind = "bool" /\ ret.val = (arg \in LockedCells(pre)))
    /\ (op \in {"drop", "move", "rotate"} /\ ret.kind = "Grid")
       => \A p \in Probes \cup LockedCells(pre) \cup ActiveCells(pre) \cup ActiveCells(grid) :
             is_occupied(grid, p) = is_occupied(pre, p)

\* is_occupied has returned False at a cell of the falling block.
C15_Witness ==
    /\ op = "is_occupied"
    /\ HasActive(pre)
    /\ arg \in ActiveCells(pre)
    /\ pre.blocks # <<>>
    /\ ret.val = FALSE

\* The cells of block b, as a set.
CellSet(b) == { b.posns[i] : i \in DOMAIN b.posns }

\* Grids a and b are the same but for the order in which blocks list cells.
SameUpToCellOrder(a, b) ==
    /\ HasActive(a) = HasActive(b)
    /\ HasActive(a) =>
          /\ a.current_block.x = b.current_block.x
          /\ a.current_block.y = b.current_block.y
          /\ a.current_block.block.color = b.current_block.block.color
          /\ CellSet(a.current_block.block) = CellSet(b.current_block.block)
    /\ DOMAIN a.blocks = DOMAIN b.blocks
    /\ \A i \in DOMAIN a.blocks :
          /\ a.blocks[i].color = b.blocks[i].color
          /\ CellSet(a.blocks[i]) = CellSet(b.blocks[i])

\* C16: shapes compare equal iff they have the same set of offsets and the
\* same color, in whatever order the offsets are listed, and so do the
\* falling blocks, the placed blocks and the Grids made of them.
C16_EqualityIgnoresCellOrder ==
    (op = "__eq__" /\ arg # None)
    => ret.kind = "bool" /\ ret.val = SameUpToCellOrder(pre, arg)

\* Block b without its cells in the rows `full`, each cell left lowered by
\* the number of rows of `full` under it.
Compacted(b, full) ==
    LET Survives(p) == p[2] \notin full
        kept == SelectSeq(b.posns, Survives)
    IN  Block([i \in DOMAIN kept |->
                  <<kept[i][1], kept[i][2] - Cardinality({ f \in full : f < kept[i][2] })>>],
              b.color)

\* The placed blocks of g compacted, without those left with no cell.
CompactedBlocks(g) ==
    LET full == FullRows(g)
        HasCells(b) == b.posns # <<>>
    IN  SelectSeq([i \in DOMAIN g.blocks |-> Compacted(g.blocks[i], full)], HasCells)

\* Every placed block of g has a cell and every placed cell is under row HEIGHT.
NonEmptyUnderTop(g) ==
    /\ \A b \in DOMAIN g.blocks : g.blocks[b].posns # <<>>
    /\ \A p \in LockedCells(g) : p[2] < HEIGHT

\* C17: on a Grid whose placed blocks all have cells, all under row HEIGHT,
\* clear_full_rows returns the Grid with the same falling block and the same
\* placed blocks in the same order, where the cells in full rows are gone,
\* every other cell keeps its column and goes down by the number of full
\* rows under it, a block left with no cell is gone, and colors are kept.
C17_ClearCompacts ==
    (op = "clear_full_rows" /\ NonEmptyUnderTop(pre))
    => /\ ret.kind = "Grid"
       /\ grid.current_block = pre.current_block
       /\ grid.blocks = CompactedBlocks(pre)

\* clear_full_rows has cleared a row under which cells lie: a block is gone
\* and a block is left, with the falling block in place.
C17_Witness ==
    /\ op = "clear_full_rows"
    /\ NonEmptyUnderTop(pre)
    /\ HasActive(pre)
    /\ \E f \in FullRows(pre) : \E p \in LockedCells(pre) : p[2] < f
    /\ Len(grid.blocks) < Len(pre.blocks)
    /\ grid.blocks # <<>>

\* C18: clear_full_rows returns.  Each call of _clear_full_row either moves
\* to the next row or clears a row, which takes cells away from the placed
\* blocks; so the row HEIGHT is reached, after HEIGHT moves to the next row
\* and no more clearings than there were cells.
C18_ScanTerminates ==
    /\ [](arg <= HEIGHT /\ streak <= CellCount(base))
    /\ [][\/ arg' = arg + 1 /\ grid' = grid
          \/ arg' = arg /\ CellCount(grid') < CellCount(grid)
          \/ arg' = arg /\ arg = HEIGHT /\ grid' = grid /\ op' = "clear_full_rows"]_vars
    /\ <>(op = "clear_full_rows" /\ arg = HEIGHT /\ ret.kind = "Grid")

\* clear_full_rows has returned after clearing two rows.
C18_Witness ==
    /\ op = "clear_full_rows"
    /\ arg = HEIGHT
    /\ streak >= 2
    /\ HasActive(grid)

\* The calls return what _clear_full_row(0) is.
ScanAgrees ==
    op = "clear_full_rows" => ret = clear_full_rows(base)

\* C20: from a valid Grid with a falling block, drop after drop leads to a
\* Grid that is not valid, after no more drops than the row of the lowest
\* falling cell plus 1; no valid Grid has a falling cell under row 0, and a
\* block with no placed cell in its way comes to rest on row 0.
C20_FallingBlockLands ==
    /\ [](/\ streak <= LowestRow(base) + 1
          /\ is_valid(grid).val = TRUE => ~ActiveBelowFloor(grid)
          /\ (op = "drop" /\ is_valid(grid).val = FALSE /\ ~ActiveOverlapsLocked(grid))
             => LowestRow(pre) = 0)
    /\ <>(is_valid(grid).val = FALSE)

\* A block has fallen three rows or more through the empty column 0 of a
\* Grid with placed blocks, and the drop from row 0 has made the Grid invalid.
C20_Witness ==
    /\ op = "drop"
    /\ streak >= 3
    /\ streak = LowestRow(base) + 1
    /\ is_valid(grid).val = FALSE
    /\ ~ActiveOverlapsLocked(grid)
    /\ LowestRow(pre) = 0
    /\ pre.blocks # <<>>

(* ------------------------------ the driver ---------------------------- *)

\* The placed cells of g are all different, in the columns, at row 0 or above.
LockedDistinctInBounds(g) ==
    /\ ~LockedCoincide(g)
    /\ \A p \in LockedCells(g) : p[1] >= 0 /\ p[1] < WIDTH /\ p[2] >= 0

\* The shapes of new_block the driver is dealt: the bar and the square.
SpawnShapes == { new_block_choices[3], new_block_choices[7] }

\* The falling blocks the driver starts: a shape of new_block over column 0,
\* at the floor or above the top.
Spawned == { ActiveBlock(0, y, s) : y \in InitRows, s \in SpawnShapes }

\* The driver starts from placed cells that are all different and in bounds,
\* with a falling block just started.
DriverInit ==
    \E bs \in BlockLists(RowPool) :
        \E cb \in Spawned :
            /\ LockedDistinctInBounds(Grid(bs, cb))
            /\ Constructed(Grid(bs, cb))

\* The driver keeps the Grid a transition returns only when it is valid.
Keep(name, a, outcome) ==
    /\ outcome.kind = "Grid"
    /\ AnchorInBounds(outcome.val)
    /\ pre' = grid
    /\ op' = name
    /\ arg' = a
    /\ ret' = outcome
    /\ grid' = IF is_valid(outcome.val).val = TRUE THEN outcome.val ELSE grid
    /\ UNCHANGED <<heap, snaps>>
    /\ NoStreak

DriverDrop == Keep("drop", <<>>, drop(grid))

DriverMove == \E dir \in {"left", "right"} : Keep("move", dir, move(grid, dir))

DriverRotate == Keep("rotate", <<>>, rotate(grid))

\* The driver places the falling block of a valid Grid.
DriverPlace ==
    /\ is_valid(grid).kind = "bool"
    /\ is_valid(grid).val = TRUE
    /\ Len(grid.blocks) < MaxBlocks
    /\ Call("place_block", <<>>, place_block(grid))
    /\ NoStreak

\* ... then clears the full rows ...
DriverClear ==
    /\ op = "place_block"
    /\ Call("clear_full_rows", <<>>, clear_full_rows(grid))
    /\ NoStreak

\* ... and starts the block new_block returns.
DriverSpawn ==
    /\ op = "clear_full_rows"
    /\ Len(grid.blocks) < MaxBlocks
    /\ \E cb \in Spawned :
          /\ pre' = grid
          /\ op' = "new_block"
          /\ arg' = <<>>
          /\ ret' = Return("Block", cb.block)
          /\ grid' = Grid(grid.blocks, cb)
    /\ UNCHANGED <<heap, snaps>>
    /\ NoStreak

DriverNext ==
    \/ DriverDrop
    \/ DriverMove
    \/ DriverRotate
    \/ DriverPlace
    \/ DriverClear
    \/ DriverSpawn

DriverSpec == DriverInit /\ [][DriverNext]_vars

\* C19: when the driver starts from placed cells that are all different, in
\* the columns and at row 0 or above, keeps what move, rotate and drop return
\* only if it is valid, places the falling block only on a valid Grid, then
\* clears the full rows and starts a shape of new_block, the placed cells
\* stay all different, in the columns and at row 0 or above.
C19_DriverKeepsLockedDistinct ==
    /\ ~LockedCoincide(grid)
    /\ \A p \in LockedCells(grid) : p[1] >= 0 /\ p[1] < WIDTH /\ p[2] >= 0

\* The driver has placed a block in the gap of a row and cleared the row it
\* filled.
C19_Witness ==
    /\ op = "clear_full_rows"
    /\ Len(pre.blocks) = 2
    /\ pre.blocks[1] = GapRow(0)
    /\ FullRows(pre) = {0}
    /\ grid # pre
    /\ grid.blocks # <<>>

(* -------------------------- lists by reference ------------------------- *)

\* A Python list is an object: a Grid holds a reference to its list of blocks
\* and a Block one to its list of posns, while tuples and namedtuples cannot
\* change.  Here Grid, ActiveBlock and Block hold references where they held
\* lists, and a method returns the heap it leaves together with its outcome.
Left(h, outcome) == [heap |-> h, out |-> outcome]

BlockValue(h, b) == Block(h[b.posns], b.color)

\* The Grid a reader sees behind the references of `self`.
GridValue(h, self) ==
    Grid([i \in DOMAIN h[self.blocks] |-> BlockValue(h, h[self.blocks][i])],
         IF self.current_block = None
         THEN None
         ELSE ActiveBlock(self.current_block.x, self.current_block.y,
                          BlockValue(h, self.current_block.block)))

\* The heap after the list displays and comprehensions that build `blocks`:
\* a new list of posns for each Block, then the new list of Blocks, which is
\* the last one allocated.
Built(h, blocks) ==
    h \o [i \in 1..Len(blocks) |-> blocks[i].posns]
      \o << [i \in 1..Len(blocks) |-> Block(Len(h) + i, blocks[i].color)] >>

\* drop and move build a Grid around the same list of blocks and the same
\* Block.
h_drop(h, self) == Left(h, drop(self))

h_move(h, self, dir) == Left(h, move(self, dir))

\* rotate builds a new list of posns.
h_rotate(h, self) ==
    IF self.current_block = None
    THEN Left(h, Raise("TypeError"))
    ELSE Left(Append(h, rotate_posns(h[self.current_block.block.posns])),
              Return("Grid",
                     Grid(self.blocks,
                          ActiveBlock(self.current_block.x, self.current_block.y,
                                      Block(Len(h) + 1, self.current_block.block.color)))))

\* convert_active_block appends to a new list.
h_convert_active_block(h, self) ==
    IF self.current_block = None
    THEN Left(h, Raise("AttributeError"))
    ELSE Left(Append(h, convert_active_block(GridValue(h, self)).val.posns),
              Return("Block", Block(Len(h) + 1, self.current_block.block.color)))

\* is_valid appends to the list convert_active_block built, which nobody else
\* holds, and reads the other lists.
h_is_valid(h, self) ==
    IF self.current_block = None
    THEN Left(h, Raise("AttributeError"))
    ELSE Left(h_convert_active_block(h, self).heap, is_valid(GridValue(h, self)))

h_is_occupied(h, self, p) == Left(h, Return("bool", is_occupied(GridValue(h, self), p)))

\* clear_full_rows returns self when no row is full; when one is, every Grid
\* it goes through is built of new lists, and so is the one it returns.
h_clear_full_rows(h, self) ==
    IF \A r \in 0..(HEIGHT - 1) : ~row_is_full(GridValue(h, self), r)
    THEN Left(h, Return("Grid", self))
    ELSE LET built == Built(h, clear_full_rows(GridValue(h, self)).val.blocks)
         IN  Left(built, Return("Grid", Grid(Len(built), self.current_block)))

\* Mutant: place_block appends the new Block to the list of self.
h_place_block_in_place(h, self) ==
    IF self.current_block = None
    THEN Left(h, Raise("AttributeError"))
    ELSE Left([Append(h, place_block(GridValue(h, self)).val.blocks[Len(h[self.blocks]) + 1].posns)
                  EXCEPT ![self.blocks] =
                      Append(@, Block(Len(h) + 1, self.current_block.block.color))],
              Return("Grid", Grid(self.blocks, None)))

\* place_block builds a new list of posns, and `+` a new list of blocks.
h_place_block(h, self) ==
    IF self.current_block = None
    THEN Left(h, Raise("AttributeError"))
    ELSE LET posns == place_block(GridValue(h, self)).val.blocks[Len(h[self.blocks]) + 1].posns
             new_block == Block(Len(h) + 1, self.current_block.block.color)
         IN  Left(h \o <<posns, h[self.blocks] \o <<new_block>> >>,
                  Return("Grid", Grid(Len(h) + 2, None)))

\* A Grid obtained: the reference the caller holds, and the value read then.
Snapshot(h, self) == [ref |-> self, val |-> GridValue(h, self)]

\* The Grids the caller constructs: lists of blocks with a full row, and a
\* falling block over column 0.
HeapInit ==
    \E bs \in BlockLists(<<FullRow(0), Pair, GapRow(1)>>) :
        \E y \in InitRows :
            LET h == Append(Built(<<>>, bs), InitShape.posns)
                self == Grid(Len(h) - 1, ActiveBlock(0, y, Block(Len(h), InitShape.color)))
            IN  /\ heap = h
                /\ snaps = <<Snapshot(h, self)>>
                /\ grid = GridValue(h, self)
                /\ pre = grid
                /\ op = "new"
                /\ arg = <<>>
                /\ ret = Return("Grid", grid)
                /\ streak = 0
                /\ base = grid

\* What the caller reads of an outcome.
OutcomeValue(h, outcome) ==
    IF outcome.kind = "Grid"
    THEN Return("Grid", GridValue(h, outcome.val))
    ELSE IF outcome.kind = "Block"
         THEN Return("Block", BlockValue(h, outcome.val))
         ELSE outcome

\* One call on the i-th Grid obtained; a Grid it returns is one more Grid
\* obtained.  `streak` counts the calls.
HeapCall(i, name, a, left) ==
    /\ streak < MaxCalls
    /\ heap' = left.heap
    /\ snaps' = IF left.out.kind = "Grid"
                THEN Append(snaps, Snapshot(left.heap, left.out.val))
                ELSE snaps
    /\ pre' = snaps[i].val
    /\ op' = name
    /\ arg' = a
    /\ ret' = OutcomeValue(left.heap, left.out)
    /\ grid' = IF left.out.kind = "Grid" THEN GridValue(left.heap, left.out.val) ELSE grid
    /\ streak' = streak + 1
    /\ base' = base

HeapDrop == \E i \in DOMAIN snaps : HeapCall(i, "drop", <<>>, h_drop(heap, snaps[i].ref))

HeapMove ==
    \E i \in DOMAIN snaps :
        \E dir \in {"right", "up"} : HeapCall(i, "move", dir, h_move(heap, snaps[i].ref, dir))

HeapRotate == \E i \in DOMAIN snaps : HeapCall(i, "rotate", <<>>, h_rotate(heap, snaps[i].ref))

HeapConvertActiveBlock ==
    \E i \in DOMAIN snaps :
        HeapCall(i, "convert_active_block", <<>>, h_convert_active_block(heap, snaps[i].ref))

HeapIsValid == \E i \in DOMAIN snaps : HeapCall(i, "is_valid", <<>>, h_is_valid(heap, snaps[i].ref))

HeapIsOccupied ==
    \E i \in DOMAIN snaps :
        HeapCall(i, "is_occupied", <<0, 0>>, h_is_occupied(heap, snaps[i].ref, <<0, 0>>))

HeapClearFullRows ==
    \E i \in DOMAIN snaps :
        HeapCall(i, "clear_full_rows", <<>>, h_clear_full_rows(heap, snaps[i].ref))

HeapPlaceBlock ==
    \E i \in DOMAIN snaps : HeapCall(i, "place_block", <<>>, h_place_block(heap, snaps[i].ref))

HeapNext ==
    \/ HeapDrop
    \/ HeapMove
    \/ HeapRotate
    \/ HeapConvertActiveBlock
    \/ HeapIsValid
    \/ HeapIsOccupied
    \/ HeapClearFullRows
    \/ HeapPlaceBlock

HeapSpec == HeapInit /\ [][HeapNext]_vars

\* What each method returns, read through the references, is what it returns
\* on the value of the Grid it was called on.
HeapAgrees ==
    /\ op = "drop" => ret = drop(pre)
    /\ op = "move" => ret = move(pre, arg)
    /\ op = "rotate" => ret = rotate(pre)
    /\ op = "convert_active_block" => ret = convert_active_block(pre)
    /\ op = "is_valid" => ret = is_valid(pre)
    /\ op = "is_occupied" => ret = Return("bool", is_occupied(pre, arg))
    /\ op = "clear_full_rows" => ret = clear_full_rows(pre)
    /\ op = "place_block" => ret = place_block(pre)

\* C14: no method changes the Grid it is called on: after any calls of drop,
\* move, rotate, convert_active_block, is_valid, is_occupied, clear_full_rows
\* and place_block, returning or raising, every Grid obtained earlier still
\* has the placed blocks (same order, same cells) and the falling block it
\* had when it was obtained.
C14_EarlierGridsUnchanged ==
    \A i \in DOMAIN snaps : GridValue(heap, snaps[i].ref) = snaps[i].val

\* A call has raised, after drop returned a Grid around the list of blocks
\* of the Grid it was called on and place_block returned a Grid of one more
\* block and no falling block.
C14_Witness ==
    /\ ret.kind = "AttributeError"
    /\ \E i, j, k \in DOMAIN snaps :
          /\ i < j
          /\ snaps[i].ref # snaps[j].ref
          /\ snaps[i].ref.blocks = snaps[j].ref.blocks
          /\ snaps[k].ref.blocks # snaps[i].ref.blocks
          /\ snaps[k].val.current_block = None
          /\ Len(snaps[k].val.blocks) = Len(snaps[i].val.blocks) + 1

====
